---- MODULE Spec2Model ----
(***************************************************************************)
(* Model of the sata backend (src/backend/src/index.ts): the record store  *)
(* (knowledge_base, security_questions, generated_answers), the REST       *)
(* handlers that write to it, and the answer-generation run of             *)
(* POST /api/answers/generate with its calls to the generation service.    *)
(*                                                                         *)
(* Spec is the whole system; SpecLive adds a service that settles every    *)
(* call; SpecKb is the store routes alone, over longer request sequences;  *)
(* SpecRank is getRelevantKbEntries alone, over larger tables.             *)
(*                                                                         *)
(* Texts are sequences of one-character strings, so that tokenize and trim *)
(* are computed on characters as the code computes them.  A value that may *)
(* be null or undefined in the code is a sequence of length 0 (absent) or  *)
(* 1 (present).                                                            *)
(***************************************************************************)
EXTENDS Integers, Sequences, FiniteSets, TLC

VARIABLES
    apiKey,      \* process.env.OPENAI_API_KEY is set (read at each request)
    clock,       \* the wall clock, in the unit of new Date().toISOString()
    kb,          \* table knowledge_base, in rowid order
    questions,   \* table security_questions, in rowid order
    answers,     \* table generated_answers, in rowid (insertion) order
    run,         \* the activations of the POST /api/answers/generate handler
    pending,     \* generation-service calls issued and not yet answered
    nextUuid,    \* number of values crypto.randomUUID() has handed out
    storeOps,    \* number of requests that changed knowledge_base or security_questions
    rareResponses, \* number of service responses other than an ordinary completion
    hist,        \* observer: what each activation saw and did (not program state)
    last,        \* observer: the most recent insert into generated_answers
    probe        \* observer: one direct call of getRelevantKbEntries, arguments and result

vars == <<apiKey, clock, kb, questions, answers, run, pending, nextUuid,
          storeOps, rareResponses, hist, last, probe>>

---------------------------------------------------------------------------
(* Bounds of the model *)

\* activations of the generate handler in one behaviour
MaxRuns == 2
\* last value of the clock
MaxClock == 2
\* requests that change knowledge_base or security_questions in one behaviour
MaxStoreOps == 1
\* service responses in one behaviour that are not an ordinary completion
MaxRareResponses == 1

---------------------------------------------------------------------------
(* Optional values: null / undefined is <<>>, a present value v is <<v>> *)

None == <<>>
Some(v) == <<v>>

\* a ?? b
Coalesce(a, b) == IF a = None THEN b ELSE a

---------------------------------------------------------------------------
(* Characters and texts *)

UpperChars == <<"A","B","C","D","E","F","G","H","I","J","K","L","M",
                "N","O","P","Q","R","S","T","U","V","W","X","Y","Z">>
LowerChars == <<"a","b","c","d","e","f","g","h","i","j","k","l","m",
                "n","o","p","q","r","s","t","u","v","w","x","y","z">>
DigitChars == {"0","1","2","3","4","5","6","7","8","9"}
SpaceChars == {" ", "\t", "\n"}

LowerSet == {LowerChars[i] : i \in 1..Len(LowerChars)}

\* String.prototype.toLowerCase, one character
ToLowerChar(c) ==
    IF \E i \in 1..Len(UpperChars) : UpperChars[i] = c
    THEN LowerChars[CHOOSE i \in 1..Len(UpperChars) : UpperChars[i] = c]
    ELSE c

ToLowerCase(text) == [i \in 1..Len(text) |-> ToLowerChar(text[i])]

\* .replace(/[^a-z0-9\s]/g, " ")
ReplaceNonAlnum(text) ==
    [i \in 1..Len(text) |->
        IF text[i] \in LowerSet \cup DigitChars \cup SpaceChars
        THEN text[i] ELSE " "]

\* .split(/\s+/): the pieces between maximal runs of white space, the empty
\* piece before a leading run and after a trailing run included
RECURSIVE SplitFrom(_, _, _, _)
SplitFrom(text, i, piece, inRun) ==
    IF i > Len(text) THEN <<piece>>
    ELSE IF text[i] \in SpaceChars
         THEN IF inRun THEN SplitFrom(text, i + 1, piece, TRUE)
              ELSE <<piece>> \o SplitFrom(text, i + 1, <<>>, TRUE)
         ELSE SplitFrom(text, i + 1, Append(piece, text[i]), FALSE)

SplitWhitespace(text) == SplitFrom(text, 1, <<>>, FALSE)

\* the shortest token tokenize keeps is one character longer than this
MinTokenLen == 2

\* Array.prototype.filter
RECURSIVE FilterLong(_)
FilterLong(pieces) ==
    IF pieces = <<>> THEN <<>>
    ELSE IF Len(Head(pieces)) > MinTokenLen
         THEN <<Head(pieces)>> \o FilterLong(Tail(pieces))
         ELSE FilterLong(Tail(pieces))

tokenize(text) == FilterLong(SplitWhitespace(ReplaceNonAlnum(ToLowerCase(text))))

\* String.prototype.trim
RECURSIVE TrimStart(_)
TrimStart(text) ==
    IF text # <<>> /\ Head(text) \in SpaceChars THEN TrimStart(Tail(text)) ELSE text

RECURSIVE TrimEnd(_)
TrimEnd(text) ==
    IF text # <<>> /\ text[Len(text)] \in SpaceChars
    THEN TrimEnd(SubSeq(text, 1, Len(text) - 1)) ELSE text

Trim(text) == TrimEnd(TrimStart(text))

Range(s) == {s[i] : i \in 1..Len(s)}

---------------------------------------------------------------------------
(* Context selection *)

\* maxEntries: number = 5
DefaultMaxEntries == 5

\* variant: every matching token counted once, however often it occurs
CountIn_Distinct(tokens, qTokens) ==
    Cardinality({tokens[i] : i \in 1..Len(tokens)} \cap qTokens)

\* the score of one row: corpus tokens that are in the question's token set
RECURSIVE CountIn(_, _)
CountIn(tokens, qTokens) ==
    IF tokens = <<>> THEN 0
    ELSE (IF Head(tokens) \in qTokens THEN 1 ELSE 0) + CountIn(Tail(tokens), qTokens)

ScoreRow(row, qTokens) ==
    LET corpus == row.question \o <<" ">> \o row.answer
    IN  CountIn(tokenize(corpus), qTokens)

\* .filter((s) => s.score > 0)
RECURSIVE FilterPositive(_)
FilterPositive(scored) ==
    IF scored = <<>> THEN <<>>
    ELSE IF Head(scored).score > 0
         THEN <<Head(scored)>> \o FilterPositive(Tail(scored))
         ELSE FilterPositive(Tail(scored))

\* variant: a sort that puts the later of two equal scores first
RECURSIVE InsertByScore_Unstable(_, _)
InsertByScore_Unstable(x, sorted) ==
    IF sorted = <<>> THEN <<x>>
    ELSE IF Head(sorted).score > x.score
         THEN <<Head(sorted)>> \o InsertByScore_Unstable(x, Tail(sorted))
         ELSE <<x>> \o sorted

\* .sort((a, b) => b.score - a.score): Array.prototype.sort is stable
RECURSIVE InsertByScore(_, _)
InsertByScore(x, sorted) ==
    IF sorted = <<>> THEN <<x>>
    ELSE IF Head(sorted).score >= x.score
         THEN <<Head(sorted)>> \o InsertByScore(x, Tail(sorted))
         ELSE <<x>> \o sorted

RECURSIVE SortByScoreDesc(_)
SortByScoreDesc(scored) ==
    IF scored = <<>> THEN <<>>
    ELSE InsertByScore(scored[Len(scored)],
                       SortByScoreDesc(SubSeq(scored, 1, Len(scored) - 1)))

\* .slice(0, maxEntries)
SliceTo(s, n) == SubSeq(s, 1, IF Len(s) < n THEN Len(s) ELSE n)

getRelevantKbEntries(allKb, questionText, maxEntries) ==
    LET qTokens == Range(tokenize(questionText))
        scored  == [i \in 1..Len(allKb) |->
                      [row |-> allKb[i], score |-> ScoreRow(allKb[i], qTokens)]]
    IN  SliceTo(SortByScoreDesc(FilterPositive(scored)), maxEntries)

---------------------------------------------------------------------------
(* Texts used as request bodies, stored rows and service output *)

QtEncrypt == <<"D","o"," ","y","o","u"," ","e","n","c","r","y","p","t"," ","d","a","t","a","?">>
QtMfa     == <<"I","s"," ","M","F","A"," ","o","n","?">>
QtBackups == <<"B","a","c","k","u","p","s","?">>
KqEncrypt == <<"E","n","c","r","y","p","t"," ","d","a","t","a","?">>
KaEncrypt == <<"A","E","S"," ","d","a","t","a",".">>
KqAccess  == <<"W","h","o"," ","h","a","s"," ","a","c","c","e","s","s","?">>
KaAccess  == <<"M","F","A"," ","f","o","r"," ","y","o","u",".">>
KaNone    == <<"N","/","A">>
QtAes     == <<"I","s"," ","A","E","S","-","2","5","6"," ","o","n","?">>
OutYes    == <<" ","Y","e","s","."," ">>
OutBlank  == <<" ">>

\* the sentence of the system prompt (index.ts line 315)
SystemPromptSentence ==
    <<"N","o"," ","i","n","f","o","r","m","a","t","i","o","n"," ",
      "a","v","a","i","l","a","b","l","e"," ","i","n"," ","t","h","e"," ",
      "k","n","o","w","l","e","d","g","e"," ","b","a","s","e",".">>

\* the sentence of the user prompt (index.ts line 328)
UserPromptSentence ==
    <<"N","o"," ","i","n","f","o","r","m","a","t","i","o","n"," ",
      "a","v","a","i","l","a","b","l","e"," ","i","n"," ","t","h","e"," ",
      "k","n","o","w","l","e","d","g","e"," ","b","a","s","e",".">>

\* the default of answerText (index.ts line 342)
FallbackAnswer ==
    <<"N","o"," ","i","n","f","o","r","m","a","t","i","o","n"," ",
      "a","v","a","i","l","a","b","l","e"," ","i","n"," ","t","h","e"," ",
      "k","n","o","w","l","e","d","g","e"," ","b","a","s","e",".">>

---------------------------------------------------------------------------
(* Rows of the three tables (part_000: CREATE TABLE) *)

\* category is TEXT NOT NULL, held as read from the request: None or Some(string)
KbRow(id, category, question, answer, created, updated) ==
    [id |-> id, category |-> category, question |-> question, answer |-> answer,
     created_at |-> created, updated_at |-> updated]

\* category is TEXT, nullable: None or Some(string)
QuestionRow(id, text, category, created) ==
    [id |-> id, text |-> text, category |-> category, created_at |-> created]

AnswerRow(id, qid, qtext, atext, category, created) ==
    [id |-> id, question_id |-> qid, question_text |-> qtext,
     answer_text |-> atext, category |-> category, created_at |-> created]

Ids(table) == {table[i].id : i \in 1..Len(table)}

\* the position of the row with this id (0 when there is none): id is PRIMARY KEY
IndexOf(table, id) ==
    IF id \in Ids(table) THEN CHOOSE i \in 1..Len(table) : table[i].id = id ELSE 0

\* DELETE FROM t WHERE id = ?
RECURSIVE DeleteById(_, _)
DeleteById(table, id) ==
    IF table = <<>> THEN <<>>
    ELSE IF Head(table).id = id THEN DeleteById(Tail(table), id)
         ELSE <<Head(table)>> \o DeleteById(Tail(table), id)

---------------------------------------------------------------------------
(* The database file as the process finds it at start-up *)

InitKb ==
    << KbRow("k1", Some("Encryption"), KqEncrypt, KaEncrypt, 0, 0),
       KbRow("k2", Some("Access"), KqAccess, KaAccess, 0, 1) >>

InitQuestions ==
    << QuestionRow("q1", QtEncrypt, Some("Privacy"), 0),
       QuestionRow("q2", QtBackups, Some("Privacy"), 1) >>

\* an answer left by a run of an earlier process
InitAnswers ==
    << AnswerRow([prefix |-> "ans_", uuid |-> 0], "q1", QtEncrypt, Trim(OutYes),
                 Some("Encryption"), 0) >>

---------------------------------------------------------------------------
(* Knowledge-base routes *)

\* a request field that is a category: missing, or a string
FalsyString(f) == f = None \/ f[1] = ""
\* a request field that is a text: missing, or a text
FalsyText(f) == f = None \/ f[1] = <<>>

KbBody(id, category, question, answer) ==
    [id |-> id, category |-> category, question |-> question, answer |-> answer]

\* variant: INSERT OR REPLACE, the row is written anew with both timestamps
KbUpsert_Replace(table, e, now) ==
    LET i == IndexOf(table, e.id)
    IN  IF i = 0
        THEN Append(table, KbRow(e.id, e.category, e.question[1], e.answer[1], now, now))
        ELSE [table EXCEPT ![i] = KbRow(e.id, e.category, e.question[1], e.answer[1],
                                        now, now)]

\* INSERT ... ON CONFLICT(id) DO UPDATE SET category, question, answer, updated_at
KbUpsert(table, e, now) ==
    LET i == IndexOf(table, e.id)
    IN  IF i = 0
        THEN Append(table, KbRow(e.id, e.category, e.question[1], e.answer[1], now, now))
        ELSE [table EXCEPT ![i] = KbRow(e.id, e.category, e.question[1], e.answer[1],
                                        table[i].created_at, now)]

RECURSIVE KbUpsertAll(_, _, _)
KbUpsertAll(table, entries, now) ==
    IF entries = <<>> THEN table
    ELSE KbUpsertAll(KbUpsert(table, Head(entries), now), Tail(entries), now)

\* a row the table refuses: a NOT NULL column without a value
KbBodyRefused(e) == e.category = None \/ e.question = None \/ e.answer = None

\* the bodies POST /api/kb/upload is sent
KbUploadBodies ==
    { << KbBody("k1", Some("Crypto"), Some(KqEncrypt), Some(KaEncrypt)),
         KbBody("k3", Some(""), Some(KqAccess), Some(KaAccess)) >>,
      << KbBody("k3", Some("Access"), Some(KqAccess), Some(KaAccess)),
         KbBody("k2", None, Some(KqAccess), Some(KaAccess)) >> }

\* POST /api/kb/upload: one transaction, rolled back when a row is refused
KbUploadWrite(entries) ==
    /\ kb' = IF \E i \in 1..Len(entries) : KbBodyRefused(entries[i])
             THEN kb
             ELSE KbUpsertAll(kb, entries, clock)
    /\ storeOps' = IF kb' # kb THEN storeOps + 1 ELSE storeOps
    /\ UNCHANGED <<apiKey, clock, questions, answers, run, pending, nextUuid, rareResponses, hist, last, probe>>

\* the request, while the model admits a further change of the store
KbUpload(entries) ==
    /\ storeOps < MaxStoreOps
    /\ KbUploadWrite(entries)

\* the bodies POST /api/kb is sent
KbCreateBodies ==
    { KbBody("k3", Some("Access"), Some(KqEncrypt), Some(KaAccess)),
      KbBody("k1", Some("Access"), Some(KqAccess), Some(KaAccess)),
      KbBody("k3", Some(""), Some(KqAccess), Some(KaAccess)) }

\* POST /api/kb: 400 on a missing field or an id that exists
KbCreateWrite(e) ==
    /\ kb' = IF \/ e.id = "" \/ FalsyString(e.category)
                \/ FalsyText(e.question) \/ FalsyText(e.answer)
             THEN kb
             ELSE IF e.id \in Ids(kb) THEN kb
             ELSE Append(kb, KbRow(e.id, e.category, e.question[1], e.answer[1],
                                   clock, clock))
    /\ storeOps' = IF kb' # kb THEN storeOps + 1 ELSE storeOps
    /\ UNCHANGED <<apiKey, clock, questions, answers, run, pending, nextUuid, rareResponses, hist, last, probe>>

\* the request, while the model admits a further change of the store
KbCreate(e) ==
    /\ storeOps < MaxStoreOps
    /\ KbCreateWrite(e)

KbIds == {"k1", "k3"}

\* the bodies PUT /api/kb/:id is sent
KbUpdateBodies ==
    { [category |-> Some("Privacy"), question |-> None, answer |-> Some(KaAccess)] }

\* PUT /api/kb/:id: 404 when the id is unknown
KbUpdateWrite(kbId, body) ==
    /\ LET i == IndexOf(kb, kbId)
       IN  kb' = IF i = 0 THEN kb
                 ELSE [kb EXCEPT ![i] =
                        KbRow(kbId,
                              Coalesce(body.category, kb[i].category),
                              Coalesce(body.question, Some(kb[i].question))[1],
                              Coalesce(body.answer, Some(kb[i].answer))[1],
                              kb[i].created_at, clock)]
    /\ storeOps' = IF kb' # kb THEN storeOps + 1 ELSE storeOps
    /\ UNCHANGED <<apiKey, clock, questions, answers, run, pending, nextUuid, rareResponses, hist, last, probe>>

\* the request, while the model admits a further change of the store
KbUpdate(kbId, body) ==
    /\ storeOps < MaxStoreOps
    /\ KbUpdateWrite(kbId, body)

\* DELETE /api/kb/:id: 404 when nothing was deleted
KbDeleteWrite(kbId) ==
    /\ kb' = DeleteById(kb, kbId)
    /\ storeOps' = IF kb' # kb THEN storeOps + 1 ELSE storeOps
    /\ UNCHANGED <<apiKey, clock, questions, answers, run, pending, nextUuid, rareResponses, hist, last, probe>>

\* the request, while the model admits a further change of the store
KbDelete(kbId) ==
    /\ storeOps < MaxStoreOps
    /\ KbDeleteWrite(kbId)

---------------------------------------------------------------------------
(* Security-question routes *)

\* variant: the conflicting row is written anew, created_at included
QuestionUpsert_Touch(table, q, now) ==
    LET i == IndexOf(table, q.id)
    IN  IF i = 0
        THEN Append(table, QuestionRow(q.id, q.text, None, now))
        ELSE [table EXCEPT ![i] = QuestionRow(q.id, q.text, None, now)]

\* INSERT ... ON CONFLICT(id) DO UPDATE SET text, category (category: null)
QuestionUpsert(table, q, now) ==
    LET i == IndexOf(table, q.id)
    IN  IF i = 0
        THEN Append(table, QuestionRow(q.id, q.text, None, now))
        ELSE [table EXCEPT ![i] = QuestionRow(q.id, q.text, None, table[i].created_at)]

RECURSIVE QuestionUpsertAll(_, _, _)
QuestionUpsertAll(table, qs, now) ==
    IF qs = <<>> THEN table
    ELSE QuestionUpsertAll(QuestionUpsert(table, Head(qs), now), Tail(qs), now)

\* the bodies POST /api/questions/upload is sent
QuestionUploadBodies ==
    { << [id |-> "q1", text |-> QtMfa], [id |-> "q3", text |-> QtBackups] >> }

\* POST /api/questions/upload
QuestionsUploadWrite(qs) ==
    /\ questions' = QuestionUpsertAll(questions, qs, clock)
    /\ storeOps' = IF questions' # questions THEN storeOps + 1 ELSE storeOps
    /\ UNCHANGED <<apiKey, clock, kb, answers, run, pending, nextUuid, rareResponses, hist, last, probe>>

\* the request, while the model admits a further change of the store
QuestionsUpload(qs) ==
    /\ storeOps < MaxStoreOps
    /\ QuestionsUploadWrite(qs)

\* time passes
Tick ==
    /\ clock < MaxClock
    /\ clock' = clock + 1
    /\ UNCHANGED <<apiKey, kb, questions, answers, run, pending, nextUuid,
                   storeOps, rareResponses, hist, last, probe>>

---------------------------------------------------------------------------
(* The generation service and the prompt *)

\* what openai.chat.completions.create resolves to
Completion(content) == [choices |-> << [message |-> [content |-> content]] >>]
NoChoice == [choices |-> <<>>]

\* an ordinary completion: text with white space around it
OrdinaryResponses == { Completion(Some(OutYes)) }

\* no choice, null content, empty or blank output, the sentence the prompts ask for
RareResponses ==
    { NoChoice, Completion(None), Completion(Some(<<>>)), Completion(Some(OutBlank)),
      Completion(Some(UserPromptSentence)) }

Responses == OrdinaryResponses \cup RareResponses

\* one context entry of the user prompt
ContextBlock(row) ==
    [id |-> row.id, category |-> row.category, question |-> row.question,
     answer |-> row.answer]

\* contextBlocks || "(none found)"
ContextBlocks(context) ==
    IF context = <<>> THEN << "(none found)" >>
    ELSE [i \in 1..Len(context) |-> ContextBlock(context[i])]

\* the two messages of one request
Messages(question, context) ==
    << [role |-> "system", sentence |-> SystemPromptSentence],
       [role |-> "user", question |-> question.text,
        context |-> ContextBlocks(context), sentence |-> UserPromptSentence] >>

\* response.choices[0]?.message?.content?.trim() ?? "No information ..."
AnswerText(response) ==
    LET content == IF response.choices = <<>> THEN None
                   ELSE response.choices[1].message.content
        trimmed == IF content = None THEN None ELSE Some(Trim(content[1]))
    IN  Coalesce(trimmed, Some(FallbackAnswer))[1]

\* variant: the question's own category takes precedence
ResolveCategory_QuestionFirst(context, question) ==
    LET top == IF context = <<>> THEN None ELSE context[1].category
    IN  Coalesce(question.category, Coalesce(top, None))

\* context[0]?.category ?? question.category ?? null
ResolveCategory(context, question) ==
    LET top == IF context = <<>> THEN None ELSE context[1].category
    IN  Coalesce(top, Coalesce(question.category, None))

---------------------------------------------------------------------------
(* POST /api/answers/generate *)

Runs == 1..MaxRuns

NoRes == [status |-> 0, error |-> "", count |-> None]
ConfigError ==
    [status |-> 500, error |-> "OPENAI_API_KEY is not configured on the server.",
     count |-> None]
EmptyError == [status |-> 400, error |-> "No security questions found.", count |-> None]
FailedError == [status |-> 500, error |-> "Failed to generate answers", count |-> None]
Success(n) == [status |-> 200, error |-> "", count |-> Some(n)]

IdleRun ==
    [pc |-> "idle", questions |-> <<>>, i |-> 0, context |-> <<>>, now |-> 0,
     generatedCount |-> 0, res |-> NoRes]

\* variant: ORDER BY created_at DESC
ListQuestions_Desc(table) ==
    LET n == Len(table)
        perms == {p \in [1..n -> 1..n] : \A a, b \in 1..n : a # b => p[a] # p[b]}
    IN  { [j \in 1..n |-> table[p[j]]] : p \in
            {q \in perms : \A a, b \in 1..n :
                a < b => table[q[a]].created_at >= table[q[b]].created_at} }

\* SELECT * FROM security_questions ORDER BY created_at ASC: every order of the
\* rows with created_at ascending (the order among equal created_at is not fixed)
ListQuestions(table) ==
    LET n == Len(table)
        perms == {p \in [1..n -> 1..n] : \A a, b \in 1..n : a # b => p[a] # p[b]}
    IN  { [j \in 1..n |-> table[p[j]]] : p \in
            {q \in perms : \A a, b \in 1..n :
                a < b => table[q[a]].created_at <= table[q[b]].created_at} }

\* variant: the credential is not checked
Precheck_SkipCredential(key, list) ==
    IF Len(list) = 0 THEN "empty" ELSE "ok"

\* variant: the question list checked before the credential
Precheck_EmptyFirst(key, list) ==
    IF Len(list) = 0 THEN "empty"
    ELSE IF ~key THEN "config"
    ELSE "ok"

\* the checks before the first write: the credential, then the question list
Precheck(key, list) ==
    IF ~key THEN "config"
    ELSE IF Len(list) = 0 THEN "empty"
    ELSE "ok"

\* variant: no reset, the run adds to what is there
DeleteAllAnswers_Keep(table) == table

\* DELETE FROM generated_answers
DeleteAllAnswers(table) == <<>>

\* getRelevantKbEntries(q.text).map((s) => s.row)
ContextFor(allKb, q) ==
    LET rel == getRelevantKbEntries(allKb, q.text, DefaultMaxEntries)
    IN  [j \in 1..Len(rel) |-> rel[j].row]

\* variant: the loop waits for a call it never issued
CreateCalls_Dropped(r, i) == {}

\* variant: the call for the following question is issued as well
CreateCalls_FanOut(r, i) == { [run |-> r, i |-> i], [run |-> r, i |-> i + 1] }

\* await openai.chat.completions.create(...): the calls one loop iteration issues
CreateCalls(r, i) == { [run |-> r, i |-> i] }

\* variant: an id taken from a counter of two values
MintId_Cycle(n) == [prefix |-> "ans_", uuid |-> (n % 2) + 1]

\* `ans_${crypto.randomUUID()}`: a value no earlier call returned
MintId(n) == [prefix |-> "ans_", uuid |-> n + 1]

\* variant: the row is kept back instead of being written
InsertAnswer_Buffered(table, row) == table

\* insert.run({...})
InsertAnswer(table, row) == Append(table, row)

\* variant: the text is read from security_questions when the row is written
QuestionText_Live(q, table) == table[IndexOf(table, q.id)].text

\* question_text: q.text, the text of the row in the list the run read
QuestionText(q, table) == q.text

\* generatedCount += 1
CountInsert(n) == n + 1

\* variant: the loop stops one question early
HasNext_StopEarly(list, i) == i + 1 < Len(list)

\* for (const q of questions): is there a further question after the i-th
HasNext(list, i) == i < Len(list)

AnswerKey(row) == [id |-> row.id, question_id |-> row.question_id]
AnswerKeys(table) == [j \in 1..Len(table) |-> AnswerKey(table[j])]

NoHist ==
    [overlapped |-> FALSE, before |-> {}, doneAtStart |-> {}, keyAtStart |-> FALSE,
     nAtStart |-> 0, opsAtStart |-> 0, opsAtEnd |-> 0, sent |-> <<>>, made |-> <<>>,
     after |-> <<>>]

Awaiting == {r \in Runs : run[r].pc = "awaiting"}

\* the handler up to its first await (or its early return)
GenerateStart(r) ==
    /\ run[r].pc = "idle"
    /\ \A s \in Runs : s < r => run[s].pc # "idle"
    /\ \E list \in ListQuestions(questions) :
         LET check == Precheck(apiKey, list)
             seen  == [hist[r] EXCEPT
                         !.before = Ids(answers),
                         !.doneAtStart = {s \in Runs : run[s].pc = "done"},
                         !.keyAtStart = apiKey,
                         !.nAtStart = Len(questions),
                         !.opsAtStart = storeOps,
                         !.opsAtEnd = storeOps]
         IN  IF check = "config"
             THEN /\ run' = [run EXCEPT ![r] = [@ EXCEPT !.pc = "done", !.res = ConfigError]]
                  /\ hist' = [hist EXCEPT ![r] = seen]
                  /\ UNCHANGED <<answers, pending>>
             ELSE IF check = "empty"
             THEN /\ run' = [run EXCEPT ![r] =
                               [@ EXCEPT !.pc = "done", !.questions = list,
                                         !.res = EmptyError]]
                  /\ hist' = [hist EXCEPT ![r] = seen]
                  /\ UNCHANGED <<answers, pending>>
             ELSE /\ answers' = DeleteAllAnswers(answers)
                  /\ run' = [run EXCEPT ![r] =
                               [pc |-> "awaiting", questions |-> list, i |-> 1,
                                context |-> ContextFor(kb, list[1]), now |-> clock,
                                generatedCount |-> 0, res |-> NoRes]]
                  /\ pending' = pending \cup CreateCalls(r, 1)
                  /\ hist' = [s \in Runs |->
                               IF s = r
                               THEN [seen EXCEPT !.sent = <<list[1].id>>,
                                                 !.overlapped = Awaiting # {}]
                               ELSE IF s \in Awaiting
                               THEN [hist[s] EXCEPT !.overlapped = TRUE]
                               ELSE hist[s]]
    /\ UNCHANGED <<apiKey, clock, kb, questions, nextUuid, storeOps, rareResponses, last, probe>>

\* the service answers call c: the rest of the loop body, then either the next
\* iteration up to its await or the success response
LlmRespond(c, response) ==
    LET r     == c.run
        q     == run[r].questions[run[r].i]
        id    == MintId(nextUuid)
        row   == AnswerRow(id, q.id, QuestionText(q, questions), AnswerText(response),
                           ResolveCategory(run[r].context, q), run[r].now)
        table == InsertAnswer(answers, row)
        count == CountInsert(run[r].generatedCount)
        more  == HasNext(run[r].questions, run[r].i)
    IN  /\ c \in pending
        /\ run[r].pc = "awaiting"
        /\ c.i = run[r].i
        /\ response \in RareResponses => rareResponses < MaxRareResponses
        /\ rareResponses' = IF response \in RareResponses THEN rareResponses + 1
                            ELSE rareResponses
        /\ answers' = table
        /\ nextUuid' = nextUuid + 1
        /\ last' = << [run |-> r, response |-> response, context |-> run[r].context,
                       question |-> q, row |-> row] >>
        /\ IF more
           THEN /\ run' = [run EXCEPT ![r] =
                             [@ EXCEPT !.i = @ + 1,
                                       !.context = ContextFor(kb, run[r].questions[run[r].i + 1]),
                                       !.generatedCount = count]]
                /\ pending' = (pending \ {c}) \cup CreateCalls(r, run[r].i + 1)
                /\ hist' = [hist EXCEPT ![r] =
                             [@ EXCEPT !.made = Append(@, AnswerKey(row)),
                                       !.sent = Append(@, run[r].questions[run[r].i + 1].id)]]
           ELSE /\ run' = [run EXCEPT ![r] =
                             [@ EXCEPT !.pc = "done", !.generatedCount = count,
                                       !.res = Success(count)]]
                /\ pending' = pending \ {c}
                /\ hist' = [hist EXCEPT ![r] =
                             [@ EXCEPT !.made = Append(@, AnswerKey(row)),
                                       !.after = AnswerKeys(table),
                                       !.opsAtEnd = storeOps]]
        /\ UNCHANGED <<apiKey, clock, kb, questions, storeOps, probe>>

\* the service fails call c (transport, quota): the catch block
LlmFail(c) ==
    LET r == c.run
    IN  /\ c \in pending
        /\ run[r].pc = "awaiting"
        /\ c.i = run[r].i
        /\ pending' = pending \ {c}
        /\ run' = [run EXCEPT ![r] = [@ EXCEPT !.pc = "done", !.res = FailedError]]
        /\ hist' = [hist EXCEPT ![r] =
                     [@ EXCEPT !.after = AnswerKeys(answers), !.opsAtEnd = storeOps]]
        /\ UNCHANGED <<apiKey, clock, kb, questions, answers, nextUuid, storeOps,
                       rareResponses, last, probe>>

---------------------------------------------------------------------------
(* The system *)

Init ==
    /\ apiKey \in BOOLEAN
    /\ clock = 1
    /\ kb = InitKb
    /\ questions \in {<<>>, InitQuestions}
    /\ answers \in {<<>>, InitAnswers}
    /\ \A j \in 1..Len(answers) : answers[j].question_id \in Ids(questions)
    /\ run = [r \in Runs |-> IdleRun]
    /\ pending = {}
    /\ nextUuid = 0
    /\ storeOps = 0
    /\ rareResponses = 0
    /\ hist = [r \in Runs |-> NoHist]
    /\ last = <<>>
    /\ probe = <<>>

Next ==
    \/ \E b \in KbUploadBodies : KbUpload(b)
    \/ \E e \in KbCreateBodies : KbCreate(e)
    \/ \E id \in KbIds, body \in KbUpdateBodies : KbUpdate(id, body)
    \/ \E id \in KbIds : KbDelete(id)
    \/ \E b \in QuestionUploadBodies : QuestionsUpload(b)
    \/ Tick
    \/ \E r \in Runs : GenerateStart(r)
    \/ \E c \in pending, resp \in Responses : LlmRespond(c, resp)
    \/ \E c \in pending : LlmFail(c)

Spec == Init /\ [][Next]_vars

---------------------------------------------------------------------------
(* The system with a generation service that answers: every call an        *)
(* activation awaits is eventually resolved or rejected                     *)

\* the service resolves or rejects the call activation r awaits
ServiceAnswers(r) ==
    \E c \in pending :
        /\ c.run = r
        /\ \/ LlmFail(c)
           \/ \E resp \in Responses : LlmRespond(c, resp)

\* every request and every answer of the service, at one time of the clock
NextLive ==
    \/ \E b \in KbUploadBodies : KbUpload(b)
    \/ \E e \in KbCreateBodies : KbCreate(e)
    \/ \E id \in KbIds, body \in KbUpdateBodies : KbUpdate(id, body)
    \/ \E id \in KbIds : KbDelete(id)
    \/ \E b \in QuestionUploadBodies : QuestionsUpload(b)
    \/ \E r \in Runs : GenerateStart(r)
    \/ \E r \in Runs : ServiceAnswers(r)

SpecLive == Init /\ [][NextLive]_vars /\ \A r \in Runs : WF_vars(ServiceAnswers(r))

---------------------------------------------------------------------------
(* The routes that write knowledge_base and security_questions on their own: *)
(* longer sequences of requests, no generation run                           *)

\* requests that change knowledge_base or security_questions in one behaviour
MaxKbOps == 3

NextKb ==
    \/ \E b \in KbUploadBodies : storeOps < MaxKbOps /\ KbUploadWrite(b)
    \/ \E e \in KbCreateBodies : storeOps < MaxKbOps /\ KbCreateWrite(e)
    \/ \E id \in KbIds, body \in KbUpdateBodies :
          storeOps < MaxKbOps /\ KbUpdateWrite(id, body)
    \/ \E id \in KbIds : storeOps < MaxKbOps /\ KbDeleteWrite(id)
    \/ \E b \in QuestionUploadBodies : storeOps < MaxKbOps /\ QuestionsUploadWrite(b)
    \/ Tick

SpecKb == Init /\ [][NextKb]_vars

---------------------------------------------------------------------------
(* getRelevantKbEntries on its own: a knowledge base built row by row and    *)
(* one call of the function on it                                            *)

\* rows of the knowledge base the call reads
MaxRankRows == 6

\* the question and answer of the rows inserted
RankRowTexts ==
    { <<KqEncrypt, KaEncrypt>>, <<KqAccess, KaEncrypt>>, <<KqAccess, KaNone>> }

\* the question texts the function is called with
RankQueries == { QtEncrypt, QtAes }

\* the values of maxEntries the function is called with
RankMaxEntries == { 2, DefaultMaxEntries }

RankRowId(n) == "k" \o ToString(n)

\* a question text with one of its words said again
RepeatWord(text, word) == text \o <<" ">> \o word

\* a row is inserted with an id not yet in the table
RankInsert(texts) ==
    /\ probe = <<>>
    /\ Len(kb) < MaxRankRows
    /\ kb' = Append(kb, KbRow(RankRowId(Len(kb) + 1), Some("Access"),
                              texts[1], texts[2], clock, clock))
    /\ UNCHANGED <<apiKey, clock, questions, answers, run, pending, nextUuid,
                   storeOps, rareResponses, hist, last, probe>>

\* getRelevantKbEntries(questionText, maxEntries) is called; the scores of all
\* rows are kept beside, for the question text and for the text with a word repeated
RankApply(questionText, maxEntries, word) ==
    /\ probe = <<>>
    /\ LET qTokens == Range(tokenize(questionText))
           rTokens == Range(tokenize(RepeatWord(questionText, word)))
       IN  probe' = << [questionText |-> questionText,
                        maxEntries   |-> maxEntries,
                        allKb        |-> kb,
                        scores       |-> [i \in 1..Len(kb) |-> ScoreRow(kb[i], qTokens)],
                        word         |-> word,
                        scoresRepeat |-> [i \in 1..Len(kb) |-> ScoreRow(kb[i], rTokens)],
                        result       |-> getRelevantKbEntries(kb, questionText,
                                                              maxEntries)] >>
    /\ UNCHANGED <<apiKey, clock, kb, questions, answers, run, pending, nextUuid,
                   storeOps, rareResponses, hist, last>>

InitRank ==
    /\ apiKey = TRUE
    /\ clock = 1
    /\ kb = <<>>
    /\ questions = <<>>
    /\ answers = <<>>
    /\ run = [r \in Runs |-> IdleRun]
    /\ pending = {}
    /\ nextUuid = 0
    /\ storeOps = 0
    /\ rareResponses = 0
    /\ hist = [r \in Runs |-> NoHist]
    /\ last = <<>>
    /\ probe = <<>>

NextRank ==
    \/ \E texts \in RankRowTexts : RankInsert(texts)
    \/ \E q \in RankQueries, m \in RankMaxEntries :
         \E w \in Range(tokenize(q)) : RankApply(q, m, w)

SpecRank == InitRank /\ [][NextRank]_vars

---------------------------------------------------------------------------
(* What the observer variables say about an activation *)

Done(r) == run[r].pc = "done"
Succeeded(r) == Done(r) /\ run[r].res.status = 200
Failed(r) == Done(r) /\ run[r].res = FailedError
\* a run was triggered after r responded
TriggeredAfter(r) == \E s \in Runs : r \in hist[s].doneAtStart
KeyIds(keys) == {keys[j].id : j \in 1..Len(keys)}
QuestionIds(list) == [j \in 1..Len(list) |-> list[j].id]
KeyQuestionIds(keys) == [j \in 1..Len(keys) |-> keys[j].question_id]
Prefix(s, n) == SubSeq(s, 1, n)

---------------------------------------------------------------------------
(* Claims *)

\* C1: when a run that no other run overlaps completes successfully, the
\* collection holds exactly one answer for each question listed at the start
\* of the run and no answer that was there before the run started.
C1_FullReplace ==
    \A r \in Runs :
        (Succeeded(r) /\ ~hist[r].overlapped) =>
            /\ KeyQuestionIds(hist[r].after) = QuestionIds(run[r].questions)
            /\ \A a, b \in 1..Len(run[r].questions) :
                   a # b => run[r].questions[a].id # run[r].questions[b].id
            /\ KeyIds(hist[r].after) \cap hist[r].before = {}

C1_Witness ==
    \E r \in Runs :
        /\ Succeeded(r) /\ ~hist[r].overlapped
        /\ hist[r].before # {}
        /\ Len(run[r].questions) >= 2

\* C2 as stated: a run whose k-th call fails has persisted the answers to its
\* first k-1 questions in order, never sent questions k+1..n, reports failure,
\* and the collection holds k-1 records until another run is triggered.
C2_Original ==
    \A r \in Runs :
        Failed(r) =>
            LET k == Len(hist[r].sent)
            IN  /\ hist[r].sent = Prefix(QuestionIds(run[r].questions), k)
                /\ KeyQuestionIds(hist[r].made) = Prefix(QuestionIds(run[r].questions), k - 1)
                /\ ~TriggeredAfter(r) => Len(answers) = k - 1

\* C2 amended: the same, the size of the collection being claimed only for a
\* run that no other run overlaps; the collection is then exactly the k-1
\* answers of the failed run.
C2_PartialFailure ==
    \A r \in Runs :
        Failed(r) =>
            LET k == Len(hist[r].sent)
            IN  /\ 1 <= k /\ k <= Len(run[r].questions)
                /\ hist[r].sent = Prefix(QuestionIds(run[r].questions), k)
                /\ KeyQuestionIds(hist[r].made) = Prefix(QuestionIds(run[r].questions), k - 1)
                /\ (~hist[r].overlapped /\ ~TriggeredAfter(r)) =>
                       AnswerKeys(answers) = hist[r].made

C2_Witness ==
    \E r \in Runs :
        /\ Failed(r) /\ ~hist[r].overlapped /\ ~TriggeredAfter(r)
        /\ Len(run[r].questions) = 3
        /\ Len(hist[r].sent) = 2
        /\ Len(answers) = 1

\* C3: when a run failed part-way and a run triggered after it gets through,
\* the later run has emptied the collection by the time its first call is
\* outstanding, and no answer of the failed run is in the store when the later
\* run has completed.
C3_RetryDiscards ==
    \A f, s \in Runs :
        (Failed(f) /\ f \in hist[s].doneAtStart) =>
            /\ (run[s].pc = "awaiting" /\ run[s].i = 1) =>
                   Ids(answers) \cap (KeyIds(hist[f].made) \cup hist[s].before) = {}
            /\ Succeeded(s) => KeyIds(hist[s].after) \cap KeyIds(hist[f].made) = {}

C3_Witness ==
    \E f, s \in Runs :
        /\ Failed(f) /\ hist[f].made # <<>>
        /\ f \in hist[s].doneAtStart
        /\ KeyIds(hist[f].made) \subseteq hist[s].before
        /\ Succeeded(s)

\* C4: a run without a credential is answered with the configuration error,
\* also when there are no questions; a run with a credential and no questions
\* is answered with the empty-input error.
C4_Preconditions ==
    \A r \in Runs :
        Done(r) =>
            /\ ~hist[r].keyAtStart => run[r].res = ConfigError
            /\ (hist[r].keyAtStart /\ hist[r].nAtStart = 0) => run[r].res = EmptyError
            /\ (hist[r].keyAtStart /\ hist[r].nAtStart > 0) =>
                   run[r].res \notin {ConfigError, EmptyError}

C4_Witness ==
    \E r \in Runs :
        /\ Done(r) /\ ~hist[r].keyAtStart /\ hist[r].nAtStart = 0
        /\ run[r].res = ConfigError

\* C5 as stated: at most one generation-service call is outstanding.
C5_Original == Cardinality(pending) <= 1

\* C5 amended: every run has at most one call outstanding, a run that is
\* suspended has exactly one, and so the calls outstanding are as many as the
\* runs in progress.
C5_OneCallPerRun ==
    /\ \A r \in Runs :
           Cardinality({c \in pending : c.run = r}) = (IF r \in Awaiting THEN 1 ELSE 0)
    /\ Cardinality(pending) = Cardinality(Awaiting)

C5_Witness == Cardinality(pending) = 2 /\ Cardinality(Awaiting) = 2

\* C6: a run handles the questions in the order of the list (ascending
\* creation time), calls the service once for each question it handles, has
\* persisted the answer to question i when the call for question i+1 is out,
\* and its answers are in the collection in the order of the questions.
C6_SequentialOrder ==
    \A r \in Runs :
        hist[r].sent # <<>> =>
            LET list == run[r].questions
                sent == hist[r].sent
                made == hist[r].made
                mine == {j \in 1..Len(answers) : answers[j].id \in KeyIds(made)}
            IN  /\ \A a, b \in 1..Len(list) :
                       a < b => list[a].created_at <= list[b].created_at
                /\ Len(sent) <= Len(list)
                /\ sent = Prefix(QuestionIds(list), Len(sent))
                /\ KeyQuestionIds(made) = Prefix(QuestionIds(list), Len(made))
                /\ Len(made) = (IF run[r].pc = "awaiting" \/ Failed(r)
                                THEN Len(sent) - 1 ELSE Len(sent))
                /\ \A a, b \in mine :
                       a < b => \E x, y \in 1..Len(made) :
                                   /\ x < y
                                   /\ made[x].id = answers[a].id
                                   /\ made[y].id = answers[b].id

C6_Witness ==
    \E r \in Runs :
        /\ Succeeded(r)
        /\ Len(run[r].questions) = 3
        /\ AnswerKeys(answers) = hist[r].made

\* C7: a success response carries the number of answers the run persisted,
\* which is the number of questions listed at the start of the run.
C7_FullCount ==
    \A r \in Runs :
        Succeeded(r) =>
            /\ run[r].res.count = Some(Len(hist[r].made))
            /\ Len(hist[r].made) = Len(run[r].questions)
            /\ Len(run[r].questions) = hist[r].nAtStart

C7_Witness ==
    \E r \in Runs :
        /\ Succeeded(r) /\ hist[r].overlapped
        /\ run[r].res.count = Some(2)
        /\ Len(questions) = 3

\* C8: two runs in succession with the knowledge base and the questions
\* unchanged report the same count, leave disjoint sets of answer ids, and each
\* leaves as many answers as there are questions.
C8_Idempotence ==
    \A r1, r2 \in Runs :
        ( /\ Succeeded(r1) /\ Succeeded(r2)
          /\ r1 \in hist[r2].doneAtStart
          /\ ~hist[r1].overlapped /\ ~hist[r2].overlapped
          /\ hist[r1].opsAtStart = hist[r2].opsAtEnd ) =>
            /\ run[r1].res.count = run[r2].res.count
            /\ KeyIds(hist[r1].after) \cap KeyIds(hist[r2].after) = {}
            /\ Cardinality(KeyIds(hist[r1].after)) = hist[r1].nAtStart
            /\ Cardinality(KeyIds(hist[r2].after)) = hist[r2].nAtStart
            /\ hist[r1].nAtStart = hist[r2].nAtStart

C8_Witness ==
    \E r1, r2 \in Runs :
        /\ Succeeded(r1) /\ Succeeded(r2)
        /\ r1 \in hist[r2].doneAtStart
        /\ ~hist[r1].overlapped /\ ~hist[r2].overlapped
        /\ hist[r1].opsAtStart = hist[r2].opsAtEnd
        /\ run[r2].res.count = Some(2)

\* C9: the category stored with an answer is the category of the first entry
\* of the selected context when the context is not empty, else the question's
\* own category when it has one, else null.
C9_CategoryResolution ==
    last # <<>> =>
        LET l == last[1]
        IN  IF l.context # <<>>
            THEN l.row.category = l.context[1].category /\ l.row.category # None
            ELSE IF l.question.category # None
            THEN l.row.category = l.question.category
            ELSE l.row.category = None

C9_Witness ==
    /\ last # <<>>
    /\ last[1].context # <<>>
    /\ last[1].question.category # None
    /\ last[1].question.category # last[1].context[1].category
    /\ last[1].row.category = last[1].context[1].category

\* the service returned nothing usable: no choice, no content, or empty output
Unusable(response) ==
    \/ response.choices = <<>>
    \/ response.choices[1].message.content = None
    \/ response.choices[1].message.content = Some(<<>>)

\* C10 as stated: when the service returns nothing usable, the answer_text
\* persisted is the sentence "No information available in the knowledge base.",
\* the sentence both prompts ask the model for.
C10_Original ==
    (last # <<>> /\ Unusable(last[1].response)) =>
        LET msgs == Messages(last[1].question, last[1].context)
        IN  /\ last[1].row.answer_text = FallbackAnswer
            /\ \A m \in 1..Len(msgs) : msgs[m].sentence = last[1].row.answer_text

\* the position in the table read of the j-th entry returned
ProbePos(j) == IndexOf(probe[1].allKb, probe[1].result[j].row.id)

\* C11: getRelevantKbEntries returns at most maxEntries entries (5 by default),
\* each a row of the table with its score and a score above 0; scores do not
\* increase along the result; entries of equal score are in the order the
\* store returned them; no row left out scores higher than a row returned.
C11_ContextSelection ==
    probe # <<>> =>
        LET p   == probe[1]
            out == p.result
            n   == Len(out)
        IN  /\ n <= p.maxEntries
            /\ \A j \in 1..n :
                  /\ ProbePos(j) # 0
                  /\ out[j].row = p.allKb[ProbePos(j)]
                  /\ out[j].score = p.scores[ProbePos(j)]
                  /\ out[j].score > 0
            /\ \A j, k \in 1..n :
                  j < k => /\ out[j].score >= out[k].score
                           /\ out[j].score = out[k].score => ProbePos(j) < ProbePos(k)
            /\ \A i \in 1..Len(p.allKb) :
                  i \notin {ProbePos(j) : j \in 1..n} =>
                      \A j \in 1..n : p.scores[i] <= out[j].score

\* C11 witness: a call with the default maxEntries that returns that many
\* entries, leaves out a row with a positive score and a row with score 0,
\* returns two entries of equal score, and returns an entry before one that
\* the store had returned earlier.
C11_Witness ==
    /\ probe # <<>>
    /\ probe[1].maxEntries = DefaultMaxEntries
    /\ Len(probe[1].result) = DefaultMaxEntries
    /\ \E i \in 1..Len(probe[1].allKb) :
          /\ probe[1].scores[i] > 0
          /\ i \notin {ProbePos(j) : j \in 1..Len(probe[1].result)}
    /\ \E j, k \in 1..Len(probe[1].result) :
          j < k /\ probe[1].result[j].score = probe[1].result[k].score
    /\ \E j, k \in 1..Len(probe[1].result) :
          j < k /\ ProbePos(j) > ProbePos(k)

\* the letters of either case and the digits
AlnumChars == LowerSet \cup {UpperChars[i] : i \in 1..Len(UpperChars)} \cup DigitChars

\* the positions where a run of letters and digits starts, and where one ends
RunStarts(text) ==
    { i \in 1..Len(text) :
        text[i] \in AlnumChars /\ (i = 1 \/ text[i - 1] \notin AlnumChars) }
RunEnds(text) ==
    { i \in 1..Len(text) :
        text[i] \in AlnumChars /\ (i = Len(text) \/ text[i + 1] \notin AlnumChars) }

\* the maximal runs of letters and digits of a text, as <<first, last>>
AlnumRuns(text) ==
    LET ends == RunEnds(text)
    IN  { <<i, CHOOSE j \in ends : j >= i /\ \A k \in ends : k >= i => j <= k>> :
            i \in RunStarts(text) }

\* the runs longer than 2 characters
LongRuns(text) == { s \in AlnumRuns(text) : s[2] - s[1] + 1 > 2 }

\* the lowercase word of a run
RunWord(text, s) == ToLowerCase(SubSeq(text, s[1], s[2]))

\* the occurrences in a row's question and answer of words of the question text
Occurrences(row, questionText) ==
    LET corpus == row.question \o <<" ">> \o row.answer
        words  == { RunWord(questionText, u) : u \in LongRuns(questionText) }
    IN  Cardinality({ s \in LongRuns(corpus) : RunWord(corpus, s) \in words })

\* C12: the score of a row is the number of occurrences, duplicates counted,
\* of lowercase alphanumeric runs longer than 2 characters in the row's
\* question and answer that are also such runs of the question text; a word
\* of the question text said again leaves every score as it was.
C12_RelevanceScore ==
    probe # <<>> =>
        \A i \in 1..Len(probe[1].allKb) :
            /\ probe[1].scores[i] = Occurrences(probe[1].allKb[i], probe[1].questionText)
            /\ probe[1].scoresRepeat[i] = probe[1].scores[i]

\* C12 witness: a row whose score counts a word twice, under a question text
\* whose repeated word is one the row contains.
C12_Witness ==
    /\ probe # <<>>
    /\ \E i \in 1..Len(probe[1].allKb) :
          LET row    == probe[1].allKb[i]
              corpus == tokenize(row.question \o <<" ">> \o row.answer)
          IN  /\ probe[1].word \in Range(corpus)
              /\ probe[1].scores[i] >
                   Cardinality(Range(corpus) \cap Range(tokenize(probe[1].questionText)))

\* C13: a request that leaves a knowledge-base entry in the table (bulk
\* upload, create, update) leaves its created_at as it was, and when it
\* changes the entry its updated_at is not earlier than before.
C13_KbTimestamps ==
    [][ \A i \in 1..Len(kb) :
          LET j == IndexOf(kb', kb[i].id)
          IN  j # 0 =>
                /\ kb'[j].created_at = kb[i].created_at
                /\ kb'[j] # kb[i] => kb'[j].updated_at >= kb[i].updated_at ]_vars

\* C13 witness: an entry created by a request and written again by a later
\* request at a later time, and an entry upserted over a row of the start-up
\* table.
C13_Witness ==
    /\ \E i \in 1..Len(kb) :
          kb[i].id = "k3" /\ kb[i].created_at = 1 /\ kb[i].updated_at > kb[i].created_at
    /\ \E i \in 1..Len(kb) :
          kb[i].id = "k1" /\ kb[i].category = Some("Crypto") /\ kb[i].created_at = 0

\* C14 as stated: no step changes the text or the category of a question
\* that is in the store.
C14_Original ==
    [][ \A i \in 1..Len(questions) :
          LET j == IndexOf(questions', questions[i].id)
          IN  /\ j # 0
              /\ questions'[j].text = questions[i].text
              /\ questions'[j].category = questions[i].category ]_vars

\* C14: a question in the store stays in the store with its id and its
\* created_at; its text or category changes only in a step of
\* POST /api/questions/upload whose body names its id, and then the text is
\* one the body gives for that id and the category is null.
C14_QuestionWrites ==
    [][ \A i \in 1..Len(questions) :
          LET j == IndexOf(questions', questions[i].id)
          IN  /\ j # 0
              /\ questions'[j].created_at = questions[i].created_at
              /\ questions'[j] # questions[i] =>
                    \E b \in QuestionUploadBodies :
                        /\ questions' = QuestionUpsertAll(questions, b, clock)
                        /\ \E k \in 1..Len(b) :
                              /\ b[k].id = questions[i].id
                              /\ questions'[j].text = b[k].text
                        /\ questions'[j].category = None ]_vars

\* C14 witness: a question of the start-up table whose text was replaced and
\* whose category was set to null by an upload.
C14_Witness ==
    \E i \in 1..Len(questions) :
        /\ questions[i].id = "q1"
        /\ questions[i].text = QtMfa
        /\ questions[i].category = None
        /\ questions[i].created_at = 0

\* the rows of generated_answers that activation r wrote and that are there,
\* each with the position in r's list of the question it answers
MadeRows(r) ==
    { <<j, i>> \in (1..Len(hist[r].made)) \X (1..Len(answers)) :
        answers[i].id = hist[r].made[j].id }

\* C15: the question_text of a row of generated_answers is the text its
\* question had in the list its run read at its start; a row that stays in
\* the table never changes; a step that changes knowledge_base or
\* security_questions, and any step that is not a step of a generation run,
\* leaves generated_answers as it is.
C15_Snapshot ==
    /\ [](\A r \in Runs : \A p \in MadeRows(r) :
            /\ answers[p[2]].question_id = run[r].questions[p[1]].id
            /\ answers[p[2]].question_text = run[r].questions[p[1]].text)
    /\ [][ /\ \A i \in 1..Len(answers) :
                LET j == IndexOf(answers', answers[i].id)
                IN  j # 0 => answers'[j] = answers[i]
           /\ (kb' # kb \/ questions' # questions \/ run' = run) => answers' = answers
         ]_vars

\* C15 witness: a row written by a run whose question_text is no longer the
\* text of its question in security_questions.
C15_Witness ==
    \E r \in Runs : \E p \in MadeRows(r) :
        LET k == IndexOf(questions, answers[p[2]].question_id)
        IN  k # 0 /\ questions[k].text # answers[p[2]].question_text

\* C16 as stated: the response to a run that failed after writing answers
\* carries the number of answers the run wrote.
C16_Original ==
    \A r \in Runs :
        (Failed(r) /\ hist[r].made # <<>>) =>
            run[r].res.count = Some(Len(hist[r].made))

\* activation r passed the checks and entered its loop
Started(r) == hist[r].sent # <<>>

\* C17: with a service that resolves or rejects every call, an activation
\* that entered its loop ends; it ends either with success after writing an
\* answer for every question of its list, or with the failure response at the
\* first call the service rejected, the questions before it answered and no
\* call made after it; until then it awaits a call that the service can
\* resolve or reject, whatever other requests were handled meanwhile.
C17_RunTerminates ==
    /\ \A r \in Runs : (run[r].pc = "awaiting") ~> Done(r)
    /\ [](\A r \in Runs :
            /\ (Done(r) /\ Started(r)) =>
                  \/ /\ Succeeded(r)
                     /\ KeyQuestionIds(hist[r].made) = QuestionIds(run[r].questions)
                  \/ /\ Failed(r)
                     /\ Len(hist[r].made) < Len(run[r].questions)
                     /\ KeyQuestionIds(hist[r].made) =
                          Prefix(QuestionIds(run[r].questions), Len(hist[r].made))
                     /\ Len(hist[r].sent) = Len(hist[r].made) + 1
            /\ run[r].pc = "awaiting" =>
                  /\ Started(r)
                  /\ [run |-> r, i |-> run[r].i] \in pending)

\* C17 witness: two activations that overlapped, with a request that changed
\* the store handled meanwhile, one ended with success over its whole list
\* and the other with the failure response after its first answer.
C17_Witness ==
    \E r, s \in Runs :
        /\ Succeeded(r) /\ hist[r].overlapped
        /\ Len(hist[r].made) = Len(run[r].questions)
        /\ Failed(s) /\ Len(hist[s].made) = 1
        /\ hist[r].opsAtEnd > hist[r].opsAtStart

\* activation b was triggered while a awaited the service, both ended with
\* success over the same list, security_questions still holds that list, and
\* no other activation entered its loop
OverlappedPair(a, b) ==
    /\ a < b
    /\ hist[a].overlapped /\ hist[b].overlapped
    /\ Succeeded(a) /\ Succeeded(b)
    /\ \A s \in Runs \ {a, b} : ~Started(s)
    /\ run[a].questions = run[b].questions
    /\ Range(run[a].questions) = Range(questions)

\* C18 as stated: after two overlapping runs that both succeeded over the
\* same unchanged list, the collection has exactly one answer per question.
C18_Original ==
    \A a, b \in Runs :
        OverlappedPair(a, b) => Len(answers) = Len(run[a].questions)

\* the answers activation a wrote after activation b's reset
WrittenAfterReset(a, b) ==
    { hist[a].made[j] : j \in { k \in 1..Len(hist[a].made) :
                                  hist[a].made[k].id \notin hist[b].before } }

\* C18: after two overlapping runs that both succeeded over the same
\* unchanged list of n questions, the collection holds every answer of the
\* second run and the answers the first run wrote after the second run's
\* reset, of which there is at least one: one or two answers per question,
\* more than n and at most 2n rows.
C18_OverlapUnion ==
    \A a, b \in Runs :
        OverlappedPair(a, b) =>
            LET n == Len(run[a].questions)
            IN  /\ Range(AnswerKeys(answers)) =
                     Range(hist[b].made) \cup WrittenAfterReset(a, b)
                /\ Len(answers) = n + Cardinality(WrittenAfterReset(a, b))
                /\ WrittenAfterReset(a, b) # {}
                /\ Len(answers) > n /\ Len(answers) <= 2 * n
                /\ \A q \in 1..n :
                      Cardinality({ i \in 1..Len(answers) :
                          answers[i].question_id = run[a].questions[q].id }) \in {1, 2}

\* C18 witness: two such runs over two questions, the first of which had
\* written one answer when the second was triggered; three rows are left.
C18_Witness ==
    \E a, b \in Runs :
        /\ OverlappedPair(a, b)
        /\ Len(run[a].questions) = 2
        /\ Cardinality(WrittenAfterReset(a, b)) = 1
        /\ Len(answers) = 3

\* C19: a step in which an activation is triggered with the credential
\* missing or with no question in the store ends the activation with the
\* configuration or the empty-input response and leaves generated_answers,
\* the calls in flight and the ids handed out as they were.
C19_RejectionNoEffect ==
    [][ \A r \in Runs :
          (/\ run[r].pc = "idle"
           /\ run'[r].pc # "idle"
           /\ ~apiKey \/ questions = <<>>) =>
              /\ run'[r].pc = "done"
              /\ run'[r].res = IF ~apiKey THEN ConfigError ELSE EmptyError
              /\ answers' = answers
              /\ pending' = pending
              /\ nextUuid' = nextUuid ]_vars

\* C19 witness: an activation rejected for the missing credential while
\* generated_answers held a row, which is still there.
C19_Witness ==
    \E r \in Runs :
        /\ Done(r) /\ run[r].res = ConfigError
        /\ hist[r].before # {}
        /\ Ids(answers) = hist[r].before
        /\ ~Started(r)

====
